---- MODULE Spec2Model ----
(***************************************************************************)
(* StealthCAPTCHA behavioral tracker (static/js/admin.js, second IIFE).    *)
(*                                                                         *)
(* The tracker is a single-threaded, event-driven object: every action     *)
(* below is one run-to-completion callback of the page's event loop (a     *)
(* public API call, a DOM event handler, a timer callback, or the          *)
(* settlement of a fetch promise chain).                                   *)
(*                                                                         *)
(* An event record in a window carries n, the arrival index of the event   *)
(* inside its category (the model's stand-in for the record's identity),   *)
(* and type, the DOM event type.  A mouse record carries ref, the arrival   *)
(* index of the lastMouseEvent it was paired with, 0 when none.  Mouse,     *)
(* click and keystroke records carry the timestamp and the quantities       *)
(* computed from it; a property the code leaves unset is the empty set, a   *)
(* set property is the singleton of its value.                              *)
(*                                                                         *)
(* The dashboard of the file's first IIFE is present with one stat card    *)
(* and animateCounter(), the function that counts the card up or down to   *)
(* a new value on an interval of its own.                                  *)
(***************************************************************************)
EXTENDS Integers, Sequences, FiniteSets, TLC

\* ------------------------------------------------------------------ CONFIG
maxMouseEvents == 100
maxClickEvents == 50
maxKeystrokeEvents == 100
maxScrollEvents == 50
\* the argument of the four slice(-10) calls of the success branch
RetainCount == 10

\* ------------------------------------------------------------------ bounds
\* SpecCounter: calls of animateCounter() on the element
MaxAnimations == 1
\* SpecFlush: events of one type beyond the RetainCount entries a trim keeps
MaxOver == 1
\* SpecCapture: events of one type beyond the largest window capacity
MaxDeepOver == 2
\* SpecLifecycle, SpecDetect: events of one type
MaxChain == 2
\* calls of init() that start tracking
MaxInits == 2
\* fetches to the collection endpoint
MaxFlush == 2
\* host events delivered while no listener is subscribed
MaxDropped == 1
\* calls of detectBot()
MaxDetect == 1
\* calls of init() made while tracking is active
MaxGuarded == 1
\* mousemove events away from the origin or off the default pace
MaxVaried == 2
\* page loads after the first
MaxReloads == 1
\* calls of getCurrentMetrics()
MaxMetrics == 2

Null == "null"
Targets == {"a", "b"}

MouseTypes == {"mousemove"}
ClickTypes == {"click", "mousedown", "mouseup"}
KeyTypes == {"keydown", "keyup"}
ScrollTypes == {"scroll", "wheel"}
AuxTypes == {"focus", "blur", "visibilitychange", "touchstart", "touchmove", "touchend"}
Categories == {"mouse", "click", "keystroke", "scroll"}
EventTypes == MouseTypes \cup ClickTypes \cup KeyTypes \cup ScrollTypes \cup AuxTypes

VARIABLES
    storage,                \* localStorage[CONFIG.sessionIdKey]
    sessionId,              \* behavioralData.sessionId
    deviceFingerprint,      \* behavioralData.deviceFingerprint
    mouseMovements,         \* behavioralData.mouseMovements
    clickPatterns,          \* behavioralData.clickPatterns
    keystrokePatterns,      \* behavioralData.keystrokePatterns
    scrollPatterns,         \* behavioralData.scrollPatterns
    auxEvents,              \* lengths of windowEvents, visibilityEvents, touchEvents
    isTracking,
    dataCollectionTimer,    \* interval handle (positive), 0 when null
    lastMouseEvent,         \* the last mousemove record, NoMouseEvent when null
    keystrokeStartTime,     \* Date.now() of the last keydown, 0 when null
    mouseDownTime,          \* target -> Date.now() of the mousedown stored on it, 0 when absent
    mouseMovementTotal,
    clickPatternTotal,
    keystrokePatternTotal,
    scrollPatternTotal,
    listeners,              \* event types with a handler subscribed
    activeTimers,           \* interval handles the host still runs
    queued,                 \* a callback of a withdrawn interval is still queued
    inflight,               \* fetches to the collection endpoint not yet settled
    detects,                \* detectBot requests: their state and callback invocations
    now,                    \* Date.now()
    synthesized,            \* identifiers generateSessionId() has made up so far
    \* observation only
    recorded,               \* event type -> number of records its handler appended
    history,                \* category -> every record ever appended to its window
    staleRuns,              \* callbacks of a withdrawn interval that have run
    inits,                  \* calls of init() that started tracking
    stops,                  \* calls of stop() that stopped tracking
    flushSent,              \* fetches issued to the collection endpoint
    handled,                \* outcomes of the settled collection fetches, in order
    detectSent,             \* fetches issued to the classification endpoint
    dropped,                \* host events that found no listener since the last init()
    guarded,                \* calls of init() that returned at the isTracking guard
    generated,              \* the identifiers generateSessionId() has returned
    collects,               \* runs of collectDeviceFingerprint() in this page load
    reloads,                \* page loads after the first
    metrics,                \* what the calls of getCurrentMetrics() returned, in order
    \* the dashboard's stat card
    markup,                 \* the text the page's markup gives the element
    textContent,            \* element.textContent: {n} for the decimal text of n,
                            \* {} for a text parseInt() makes NaN of
    counterTimers,          \* the armed intervals of animateCounter()
    animated,               \* calls of animateCounter()
    lastTarget              \* the targetValue of the last call, {} before the first

windows == <<mouseMovements, clickPatterns, keystrokePatterns, scrollPatterns>>
totals == <<mouseMovementTotal, clickPatternTotal, keystrokePatternTotal, scrollPatternTotal>>
scratch == <<lastMouseEvent, keystrokeStartTime, mouseDownTime>>
session == <<storage, sessionId, deviceFingerprint>>
tracking == <<isTracking, dataCollectionTimer, listeners, activeTimers, inits, stops>>
flushing == <<inflight, flushSent, handled>>
detecting == <<detects, detectSent>>
observed == <<recorded, history>>
\* what only init(), a page load and getCurrentMetrics() change
dashboard == <<markup, textContent, counterTimers, animated, lastTarget>>
extra == <<synthesized, guarded, generated, collects, reloads, metrics, dashboard>>
vars == <<windows, totals, scratch, session, tracking, flushing, detecting,
          auxEvents, queued, observed, dropped, staleRuns, now, extra>>

Min(a, b) == IF a < b THEN a ELSE b
Max(a, b) == IF a > b THEN a ELSE b

\* slice(0, k) where the code has slice(-k): the oldest entries are kept
LastN_head(s, k) == SubSeq(s, 1, Min(k, Len(s)))

\* Array.prototype.slice(-k)
LastN(s, k) == SubSeq(s, Len(s) - Min(k, Len(s)) + 1, Len(s))

\* arr.push(e); if (arr.length > max) arr.shift();
PushLimit(s, e, max) ==
    LET p == Append(s, e) IN IF Len(p) > max THEN Tail(p) ELSE p

\* ------------------------------------------------------------------ numbers
\* The Number values the handlers compute, exactly: a finite value is the
\* fraction num/den in lowest terms with den > 0; den = 0 is what a division
\* by zero yields (Infinity for num = 1, -Infinity for num = -1, NaN for
\* num = 0).
Abs(a) == IF a < 0 THEN 0 - a ELSE a

RECURSIVE Gcd(_, _)
Gcd(a, b) == IF b = 0 THEN a ELSE Gcd(b, a % b)

Sign(a) == IF a > 0 THEN 1 ELSE IF a < 0 THEN 0 - 1 ELSE 0

\* the Number p / q of two integers
Quotient(p, q) ==
    IF q = 0 THEN [num |-> Sign(p), den |-> 0]
    ELSE LET g == Gcd(Abs(p), Abs(q))
         IN  [num |-> Sign(q) * (p \div g), den |-> Abs(q) \div g]

Zero == [num |-> 0, den |-> 1]
IsFinite(a) == a.den # 0

\* a - b of two finite Numbers
Minus(a, b) == Quotient(a.num * b.den - b.num * a.den, a.den * b.den)

\* a + b of two finite Numbers
Plus(a, b) == Quotient(a.num * b.den + b.num * a.den, a.den * b.den)

\* a / k of a finite Number and an integer
Over(a, k) ==
    IF k = 0 THEN [num |-> Sign(a.num), den |-> 0]
    ELSE Quotient(a.num, a.den * k)

\* Math.sqrt on the squares of integers, the only arguments the runs give it
Sqrt(q) == CHOOSE r \in 0..q : r * r = q

\* the truth value of a property holding a Number, {} when the property is unset
Truthy(prop) == \E v \in prop : v.num # 0

RECURSIVE SumOver(_, _)
SumOver(f, S) ==
    IF S = {} THEN 0
    ELSE LET x == CHOOSE y \in S : TRUE IN f[x] + SumOver(f, S \ {x})

\* ------------------------------------------------------------------ budgets
\* A budget B bounds one specification's exploration: B.chain events of the
\* busiest event type, B.side events outside it, B.inits effective init()
\* calls, B.flush collection fetches, B.detect detectBot() calls.
WindowTypes == MouseTypes \cup ClickTypes \cup KeyTypes \cup ScrollTypes

RECURSIVE MaxOver_(_, _)
MaxOver_(f, S) ==
    IF S = {} THEN 0
    ELSE LET x == CHOOSE y \in S : TRUE IN Max(f[x], MaxOver_(f, S \ {x}))

CanRecord(B, t) ==
    LET r == [recorded EXCEPT ![t] = @ + 1]
        top == MaxOver_(r, EventTypes)
    IN  /\ SumOver(r, EventTypes) - top <= B.side
        /\ r[t] <= B.chain

\* ------------------------------------------------------------------ init
\* Date.now() when the script is loaded
LoadTime == 1000
\* the pointer position and the pace of the events of a run that varies neither
Origin == <<0, 0>>
DefaultDt == 100
\* deviceFingerprint: {}
NoFingerprint == [onlineStatus |-> "unset"]
\* lastMouseEvent = null
NoMouseEvent ==
    [n |-> 0, type |-> "null", ref |-> 0, x |-> 0, y |-> 0, timestamp |-> 0,
     velocity |-> {}, acceleration |-> {}]

\* the tracker when the script has been loaded
Loaded ==
    /\ storage \in {Null, "sc_stored"}
    /\ sessionId = Null
    /\ deviceFingerprint = NoFingerprint
    /\ now = LoadTime
    /\ synthesized = 0
    /\ guarded = 0
    /\ generated = {}
    /\ collects = 0
    /\ reloads = 0
    /\ metrics = <<>>
    /\ mouseMovements = <<>>
    /\ clickPatterns = <<>>
    /\ keystrokePatterns = <<>>
    /\ scrollPatterns = <<>>
    /\ auxEvents = [a \in {"windowEvents", "visibilityEvents", "touchEvents"} |-> 0]
    /\ isTracking = FALSE
    /\ dataCollectionTimer = 0
    /\ lastMouseEvent = NoMouseEvent
    /\ keystrokeStartTime = 0
    /\ mouseDownTime = [g \in Targets |-> 0]
    /\ mouseMovementTotal = 0
    /\ clickPatternTotal = 0
    /\ keystrokePatternTotal = 0
    /\ scrollPatternTotal = 0
    /\ listeners = {}
    /\ activeTimers = {}
    /\ queued = FALSE
    /\ inflight = {}
    /\ detects = <<>>
    /\ recorded = [t \in EventTypes |-> 0]
    /\ history = [c \in Categories |-> <<>>]
    /\ staleRuns = 0
    /\ inits = 0
    /\ stops = 0
    /\ flushSent = 0
    /\ handled = <<>>
    /\ detectSent = 0
    /\ dropped = 0

\* the stat card as the page's markup shows it, with the text m
Card(m) ==
    /\ markup = m
    /\ textContent = m
    /\ counterTimers = {}
    /\ animated = 0
    /\ lastTarget = {}

Init == Loaded /\ Card({0})

\* 'sc_' + Date.now() + '_' + Math.random()...: no two made-up identifiers
\* are equal
NewIds == <<"sc_1", "sc_2", "sc_3", "sc_4", "sc_5", "sc_6", "sc_7", "sc_8", "sc_9",
            "sc_10", "sc_11", "sc_12">>

\* generateSessionId(): the stored identifier, or a new one written to storage
generateSessionId == IF storage # Null THEN storage ELSE NewIds[synthesized + 1]

\* generateSessionId() without its localStorage.setItem() line
StorageAfterGenerate_noWrite == storage

StorageAfterGenerate == IF storage # Null THEN storage ELSE NewIds[synthesized + 1]

\* the subscriptions setupEventListeners() makes
Subscribed ==
    {"mousemove", "click", "mousedown", "mouseup", "keydown", "keyup", "scroll",
     "wheel", "focus", "blur", "visibilitychange", "touchstart", "touchmove",
     "touchend"}
\* stop() without its removeEventListener('wheel', ...) line
Withdrawn_noWheel ==
    {"mousemove", "click", "mousedown", "mouseup", "keydown", "keyup", "scroll",
     "focus", "blur", "visibilitychange", "touchstart", "touchmove", "touchend"}

\* the subscriptions stop() withdraws
Withdrawn ==
    {"mousemove", "click", "mousedown", "mouseup", "keydown", "keyup", "scroll",
     "wheel", "focus", "blur", "visibilitychange", "touchstart", "touchmove",
     "touchend"}

\* collectDeviceFingerprint(): env is what navigator and screen report when
\* it runs; the model tells two fingerprints apart by navigator.onLine alone
collectDeviceFingerprint(env) ==
    /\ deviceFingerprint' = [onlineStatus |-> env]
    /\ collects' = collects + 1

\* what init() does past its guard
StartTracking(B, providedSessionId) ==
    /\ inits < B.inits
    /\ sessionId' = IF providedSessionId # Null THEN providedSessionId
                    ELSE generateSessionId
    /\ storage' = IF providedSessionId # Null THEN storage ELSE StorageAfterGenerate
    /\ generated' = IF providedSessionId # Null THEN generated
                    ELSE generated \cup {generateSessionId}
    /\ synthesized' = IF providedSessionId = Null /\ storage = Null
                      THEN synthesized + 1 ELSE synthesized
    /\ \E env \in B.envs : collectDeviceFingerprint(env)
    /\ listeners' = listeners \cup Subscribed
    /\ dataCollectionTimer' = inits + 1
    /\ activeTimers' = activeTimers \cup {inits + 1}
    /\ isTracking' = TRUE
    /\ inits' = inits + 1
    /\ dropped' = 0
    /\ UNCHANGED <<windows, totals, scratch, flushing, detecting, auxEvents,
                   queued, observed, stops, staleRuns, now, reloads, metrics,
                   dashboard>>

\* init() without its "if (isTracking) return;" line
init_noGuard(B, providedSessionId) ==
    /\ IF isTracking THEN guarded < B.guarded /\ guarded' = guarded + 1
       ELSE UNCHANGED guarded
    /\ StartTracking(B, providedSessionId)

\* init(providedSessionId): providedSessionId is Null or a caller's identifier
init(B, providedSessionId) ==
    IF isTracking
    THEN /\ guarded < B.guarded
         /\ guarded' = guarded + 1
         /\ UNCHANGED <<windows, totals, scratch, session, tracking, flushing,
                        detecting, auxEvents, queued, observed, dropped, staleRuns,
                        now, synthesized, generated, collects, reloads, metrics,
                        dashboard>>
    ELSE StartTracking(B, providedSessionId) /\ UNCHANGED guarded

\* stop() without its clearInterval() call: the handle is forgotten, the
\* interval stays armed
stop_noClearInterval(pending) ==
    IF ~isTracking
    THEN UNCHANGED vars
    ELSE /\ dataCollectionTimer' = 0
         /\ listeners' = listeners \ Withdrawn
         /\ isTracking' = FALSE
         /\ stops' = stops + 1
         /\ UNCHANGED <<windows, totals, scratch, session, flushing, detecting,
                        auxEvents, queued, activeTimers, observed, dropped, inits,
                        staleRuns, now, extra>>

\* stop().  pending: the interval had expired and its callback was already
\* queued on the event loop when clearInterval() ran; the model lets such a
\* callback still run, which no host is known to do and none is trusted not to.
stop(pending) ==
    IF ~isTracking
    THEN UNCHANGED vars
    ELSE /\ activeTimers' = IF dataCollectionTimer # 0
                            THEN activeTimers \ {dataCollectionTimer}
                            ELSE activeTimers
         /\ dataCollectionTimer' = 0
         /\ listeners' = listeners \ Withdrawn
         /\ isTracking' = FALSE
         /\ stops' = stops + 1
         /\ queued' = (queued \/ (pending /\ dataCollectionTimer # 0))
         /\ UNCHANGED <<windows, totals, scratch, session, flushing, detecting,
                        auxEvents, observed, dropped, inits, staleRuns, now, extra>>

\* The page is loaded again: the script runs anew over the same localStorage.
\* Nothing of the previous load is left, neither its timers and listeners nor
\* the callbacks of its fetches.
Reload(B) ==
    /\ reloads < B.reloads
    /\ reloads' = reloads + 1
    /\ sessionId' = Null
    /\ deviceFingerprint' = NoFingerprint
    /\ mouseMovements' = <<>>
    /\ clickPatterns' = <<>>
    /\ keystrokePatterns' = <<>>
    /\ scrollPatterns' = <<>>
    /\ auxEvents' = [a \in DOMAIN auxEvents |-> 0]
    /\ isTracking' = FALSE
    /\ dataCollectionTimer' = 0
    /\ lastMouseEvent' = NoMouseEvent
    /\ keystrokeStartTime' = 0
    /\ mouseDownTime' = [g \in Targets |-> 0]
    /\ mouseMovementTotal' = 0
    /\ clickPatternTotal' = 0
    /\ keystrokePatternTotal' = 0
    /\ scrollPatternTotal' = 0
    /\ listeners' = {}
    /\ activeTimers' = {}
    /\ queued' = FALSE
    /\ inflight' = {}
    /\ detects' = <<>>
    /\ recorded' = [t \in EventTypes |-> 0]
    /\ history' = [c \in Categories |-> <<>>]
    /\ staleRuns' = 0
    /\ inits' = 0
    /\ stops' = 0
    /\ flushSent' = 0
    /\ handled' = <<>>
    /\ detectSent' = 0
    /\ dropped' = 0
    /\ guarded' = 0
    /\ collects' = 0
    /\ metrics' = <<>>
    /\ textContent' = markup
    /\ counterTimers' = {}
    /\ animated' = 0
    /\ lastTarget' = {}
    /\ UNCHANGED <<storage, synthesized, generated, now, markup>>

\* ------------------------------------------------------------------ capture
\* the host delivers an event of type t to its subscribed handler
Delivered(B, t) == t \in listeners /\ CanRecord(B, t)

Count(t) == recorded' = [recorded EXCEPT ![t] = @ + 1]
Log(c, e) == history' = [history EXCEPT ![c] = Append(@, e)]

\* the variables no capture handler touches
NoControl ==
    UNCHANGED <<session, tracking, flushing, detecting, queued, dropped, staleRuns,
                extra>>

\* the velocity computed without the test of timeDiff > 0
Velocity_noZeroGuard(prev, x, y, t) ==
    LET timeDiff == t - prev.timestamp
        distance == Sqrt((x - prev.x) * (x - prev.x) + (y - prev.y) * (y - prev.y))
    IN  Quotient(distance, timeDiff)

\* the velocity handleMouseMove() stores on an event at (x, y), time t, that
\* follows the event prev
Velocity(prev, x, y, t) ==
    LET timeDiff == t - prev.timestamp
        distance == Sqrt((x - prev.x) * (x - prev.x) + (y - prev.y) * (y - prev.y))
    IN  IF timeDiff > 0 THEN Quotient(distance, timeDiff) ELSE Zero

\* the acceleration handleMouseMove() stores with the velocity v
Acceleration(prev, v, t) ==
    LET timeDiff == t - prev.timestamp
    IN  IF Truthy(prev.velocity)
        THEN Over(Minus(v, CHOOSE u \in prev.velocity : TRUE), timeDiff)
        ELSE Zero

\* the mousemove events of h away from the origin or off the default pace
Varied(h) ==
    Cardinality({i \in DOMAIN h :
        \/ <<h[i].x, h[i].y>> # Origin
        \/ i > 1 /\ h[i].timestamp - h[i - 1].timestamp # DefaultDt})

\* event.clientX, event.clientY are the point p; dt is the time since the
\* clock was last read
handleMouseMove(B) ==
    /\ Delivered(B, "mousemove")
    /\ \E p \in B.points, dt \in B.dts :
         LET t == now + dt
             v == Velocity(lastMouseEvent, p[1], p[2], t)
             mouseEvent ==
                 [n |-> Len(history.mouse) + 1, type |-> "mousemove",
                  ref |-> lastMouseEvent.n, x |-> p[1], y |-> p[2], timestamp |-> t,
                  velocity |-> IF lastMouseEvent.n # 0 THEN {v} ELSE {},
                  acceleration |-> IF lastMouseEvent.n # 0
                                   THEN {Acceleration(lastMouseEvent, v, t)} ELSE {}]
         IN  /\ Varied(Append(history.mouse, mouseEvent)) <= B.varied
             /\ now' = t
             /\ mouseMovements' = PushLimit(mouseMovements, mouseEvent, maxMouseEvents)
             /\ Log("mouse", mouseEvent)
             /\ lastMouseEvent' = mouseEvent
    /\ mouseMovementTotal' = mouseMovementTotal + 1
    /\ Count("mousemove")
    /\ NoControl
    /\ UNCHANGED <<clickPatterns, keystrokePatterns, scrollPatterns, auxEvents,
                   keystrokeStartTime, mouseDownTime, clickPatternTotal,
                   keystrokePatternTotal, scrollPatternTotal>>

handleClick(B) ==
    /\ Delivered(B, "click")
    /\ \E dt \in B.dts :
         LET clickEvent == [n |-> Len(history.click) + 1, type |-> "click",
                            timestamp |-> now + dt, duration |-> {}]
         IN  /\ now' = now + dt
             /\ clickPatterns' = PushLimit(clickPatterns, clickEvent, maxClickEvents)
             /\ Log("click", clickEvent)
    /\ clickPatternTotal' = clickPatternTotal + 1
    /\ Count("click")
    /\ NoControl
    /\ UNCHANGED <<mouseMovements, keystrokePatterns, scrollPatterns, auxEvents,
                   scratch, mouseMovementTotal, keystrokePatternTotal,
                   scrollPatternTotal>>

\* target is the element the button went down on; its _mouseDownTime property
\* is mouseDownTime[target], 0 when the element has none
handleMouseDown(B, target) ==
    /\ Delivered(B, "mousedown")
    /\ \E dt \in B.dts :
         LET mouseDownEvent == [n |-> Len(history.click) + 1, type |-> "mousedown",
                                timestamp |-> now + dt, duration |-> {}]
         IN  /\ now' = now + dt
             /\ mouseDownTime' = [mouseDownTime EXCEPT ![target] = now + dt]
             /\ clickPatterns' = Append(clickPatterns, mouseDownEvent)
             /\ Log("click", mouseDownEvent)
    /\ Count("mousedown")
    /\ NoControl
    /\ UNCHANGED <<mouseMovements, keystrokePatterns, scrollPatterns, auxEvents,
                   lastMouseEvent, keystrokeStartTime, totals>>

handleMouseUp(B, target) ==
    /\ Delivered(B, "mouseup")
    /\ \E dt \in B.dts :
         LET mouseUpEvent ==
                 [n |-> Len(history.click) + 1, type |-> "mouseup",
                  timestamp |-> now + dt,
                  duration |-> IF mouseDownTime[target] # 0
                               THEN {now + dt - mouseDownTime[target]} ELSE {}]
         IN  /\ now' = now + dt
             /\ clickPatterns' = Append(clickPatterns, mouseUpEvent)
             /\ Log("click", mouseUpEvent)
    /\ mouseDownTime' = [mouseDownTime EXCEPT ![target] = 0]
    /\ Count("mouseup")
    /\ NoControl
    /\ UNCHANGED <<mouseMovements, keystrokePatterns, scrollPatterns, auxEvents,
                   lastMouseEvent, keystrokeStartTime, totals>>

\* key is event.keyCode
handleKeyDown(B) ==
    /\ Delivered(B, "keydown")
    /\ \E key \in B.keys, dt \in B.dts :
         LET keystrokeEvent == [n |-> Len(history.keystroke) + 1, type |-> "keydown",
                                keyCode |-> key, timestamp |-> now + dt,
                                duration |-> {}]
         IN  /\ now' = now + dt
             /\ keystrokeStartTime' = now + dt
             /\ keystrokePatterns' = Append(keystrokePatterns, keystrokeEvent)
             /\ Log("keystroke", keystrokeEvent)
    /\ keystrokePatternTotal' = keystrokePatternTotal + 1
    /\ Count("keydown")
    /\ NoControl
    /\ UNCHANGED <<mouseMovements, clickPatterns, scrollPatterns, auxEvents,
                   lastMouseEvent, mouseDownTime, mouseMovementTotal,
                   clickPatternTotal, scrollPatternTotal>>

handleKeyUp(B) ==
    /\ Delivered(B, "keyup")
    /\ \E key \in B.keys, dt \in B.dts :
         LET keystrokeEvent ==
                 [n |-> Len(history.keystroke) + 1, type |-> "keyup",
                  keyCode |-> key, timestamp |-> now + dt,
                  duration |-> {IF keystrokeStartTime # 0
                                THEN now + dt - keystrokeStartTime ELSE 0}]
         IN  /\ now' = now + dt
             /\ keystrokePatterns' =
                 PushLimit(keystrokePatterns, keystrokeEvent, maxKeystrokeEvents)
             /\ Log("keystroke", keystrokeEvent)
    /\ keystrokePatternTotal' = keystrokePatternTotal + 1
    /\ Count("keyup")
    /\ NoControl
    /\ UNCHANGED <<mouseMovements, clickPatterns, scrollPatterns, auxEvents,
                   scratch, mouseMovementTotal, clickPatternTotal,
                   scrollPatternTotal>>

handleScroll(B) ==
    /\ Delivered(B, "scroll")
    /\ LET scrollEvent == [n |-> Len(history.scroll) + 1, type |-> "scroll", ref |-> 0]
       IN  /\ scrollPatterns' = PushLimit(scrollPatterns, scrollEvent, maxScrollEvents)
           /\ Log("scroll", scrollEvent)
    /\ scrollPatternTotal' = scrollPatternTotal + 1
    /\ Count("scroll")
    /\ NoControl
    /\ UNCHANGED now
    /\ UNCHANGED <<mouseMovements, clickPatterns, keystrokePatterns, auxEvents,
                   scratch, mouseMovementTotal, clickPatternTotal,
                   keystrokePatternTotal>>

handleWheel(B) ==
    /\ Delivered(B, "wheel")
    /\ LET wheelEvent == [n |-> Len(history.scroll) + 1, type |-> "wheel", ref |-> 0]
       IN  /\ scrollPatterns' = Append(scrollPatterns, wheelEvent)
           /\ Log("scroll", wheelEvent)
    /\ scrollPatternTotal' = scrollPatternTotal + 1
    /\ Count("wheel")
    /\ NoControl
    /\ UNCHANGED now
    /\ UNCHANGED <<mouseMovements, clickPatterns, keystrokePatterns, auxEvents,
                   scratch, mouseMovementTotal, clickPatternTotal,
                   keystrokePatternTotal>>

\* push onto one of the arrays the payloads never carry
PushAux(t, array) ==
    /\ auxEvents' = [auxEvents EXCEPT ![array] = @ + 1]
    /\ Count(t)
    /\ NoControl
    /\ UNCHANGED <<windows, totals, scratch, history, now>>

handleWindowFocus(B) == Delivered(B, "focus") /\ PushAux("focus", "windowEvents")

handleWindowBlur(B) == Delivered(B, "blur") /\ PushAux("blur", "windowEvents")

handleVisibilityChange(B) ==
    Delivered(B, "visibilitychange") /\ PushAux("visibilitychange", "visibilityEvents")

\* touches is event.touches.length
handleTouchStart(B, touches) ==
    /\ Delivered(B, "touchstart")
    /\ IF touches > 0 THEN PushAux("touchstart", "touchEvents") ELSE UNCHANGED vars

handleTouchMove(B, touches) ==
    /\ Delivered(B, "touchmove")
    /\ IF touches > 0 THEN PushAux("touchmove", "touchEvents") ELSE UNCHANGED vars

handleTouchEnd(B) == Delivered(B, "touchend") /\ PushAux("touchend", "touchEvents")

\* a host event of a type nothing is subscribed to reaches no handler
DropEvent(B, t) ==
    /\ t \notin listeners
    /\ dropped < B.dropped
    /\ dropped' = dropped + 1
    /\ UNCHANGED <<windows, totals, scratch, session, tracking, flushing, detecting,
                   auxEvents, queued, observed, staleRuns, now, extra>>

\* a host event reaches the handler subscribed to its type: the handlers that
\* feed the four windows of the payloads
WindowCapture(B) ==
    \/ handleMouseMove(B)
    \/ handleClick(B)
    \/ \E target \in B.targets : handleMouseDown(B, target)
    \/ \E target \in B.targets : handleMouseUp(B, target)
    \/ handleKeyDown(B)
    \/ handleKeyUp(B)
    \/ handleScroll(B)
    \/ handleWheel(B)

\* the handlers that feed windowEvents, visibilityEvents and touchEvents
AuxCapture(B) ==
    \/ handleWindowFocus(B)
    \/ handleWindowBlur(B)
    \/ handleVisibilityChange(B)
    \/ \E touches \in 0..1 : handleTouchStart(B, touches)
    \/ \E touches \in 0..1 : handleTouchMove(B, touches)
    \/ handleTouchEnd(B)

\* ------------------------------------------------------------------ flush
\* How a fetch settles: a 2xx response with a JSON body, a non-2xx response,
\* a transport error (fetch rejects), a 2xx response whose body does not parse
\* (response.json() rejects).
Outcomes == {"ok", "status", "network", "body"}

\* the payloads with slice(0, max) where the code has slice(-max)
Snapshot_head ==
    [mouseMovements |-> LastN_head(mouseMovements, maxMouseEvents),
     clickPatterns |-> LastN_head(clickPatterns, maxClickEvents),
     keystrokePatterns |-> LastN_head(keystrokePatterns, maxKeystrokeEvents),
     scrollPatterns |-> LastN_head(scrollPatterns, maxScrollEvents)]

\* the four window snapshots both payloads carry
Snapshot ==
    [mouseMovements |-> LastN(mouseMovements, maxMouseEvents),
     clickPatterns |-> LastN(clickPatterns, maxClickEvents),
     keystrokePatterns |-> LastN(keystrokePatterns, maxKeystrokeEvents),
     scrollPatterns |-> LastN(scrollPatterns, maxScrollEvents)]

\* sendBehavioralData() guarded by the session identifier alone
sendBehavioralData_noTrackingGuard(B) ==
    IF sessionId = Null
    THEN UNCHANGED flushing
    ELSE /\ flushSent < B.flush
         /\ inflight' = inflight \cup
                {[id |-> flushSent + 1, sessionId |-> sessionId,
                  deviceFingerprint |-> deviceFingerprint, data |-> Snapshot]}
         /\ flushSent' = flushSent + 1
         /\ UNCHANGED handled

sendBehavioralData(B) ==
    IF sessionId = Null \/ ~isTracking
    THEN UNCHANGED flushing
    ELSE /\ flushSent < B.flush
         /\ inflight' = inflight \cup
                {[id |-> flushSent + 1, sessionId |-> sessionId,
                  deviceFingerprint |-> deviceFingerprint, data |-> Snapshot]}
         /\ flushSent' = flushSent + 1
         /\ UNCHANGED handled

\* the interval of an armed handle expires and the host runs its callback
TimerCallback(B) ==
    /\ activeTimers # {}
    /\ sendBehavioralData(B)
    /\ UNCHANGED <<windows, totals, scratch, session, tracking, detecting,
                   auxEvents, queued, observed, dropped, staleRuns, now, extra>>

\* a callback the host had queued before clearInterval() withdrew its handle
\* runs all the same (see stop)
StaleCallback(B) ==
    /\ queued
    /\ queued' = FALSE
    /\ staleRuns' = staleRuns + 1
    /\ sendBehavioralData(B)
    /\ UNCHANGED <<windows, totals, scratch, session, tracking, detecting,
                   auxEvents, observed, dropped, now, extra>>

\* the success branch with slice(0, 10): every window keeps its oldest entries
TrimWindows_head ==
    /\ mouseMovements' = SubSeq(mouseMovements, 1, Min(RetainCount, Len(mouseMovements)))
    /\ clickPatterns' = SubSeq(clickPatterns, 1, Min(RetainCount, Len(clickPatterns)))
    /\ keystrokePatterns' =
           SubSeq(keystrokePatterns, 1, Min(RetainCount, Len(keystrokePatterns)))
    /\ scrollPatterns' = SubSeq(scrollPatterns, 1, Min(RetainCount, Len(scrollPatterns)))

\* the success branch: every window keeps its last RetainCount entries
TrimWindows ==
    /\ mouseMovements' = LastN(mouseMovements, RetainCount)
    /\ clickPatterns' = LastN(clickPatterns, RetainCount)
    /\ keystrokePatterns' = LastN(keystrokePatterns, RetainCount)
    /\ scrollPatterns' = LastN(scrollPatterns, RetainCount)

\* the trim moved out of the success handler, so that it runs however the
\* fetch settles
FlushSettle_trimAlways(f, o) ==
    /\ f \in inflight
    /\ inflight' = inflight \ {f}
    /\ handled' = Append(handled, IF o = "ok" THEN "ok" ELSE "failed")
    /\ TrimWindows
    /\ UNCHANGED <<totals, scratch, session, tracking, detecting, auxEvents,
                   queued, observed, dropped, flushSent, staleRuns, now, extra>>

\* the chain with a catch handler that gives the schedule up: it calls
\* clearInterval(dataCollectionTimer)
FlushSettle_failStops(f, o) ==
    /\ f \in inflight
    /\ inflight' = inflight \ {f}
    /\ handled' = Append(handled, IF o = "ok" THEN "ok" ELSE "failed")
    /\ IF o = "ok"
       THEN TrimWindows /\ UNCHANGED <<dataCollectionTimer, activeTimers>>
       ELSE /\ activeTimers' = activeTimers \ {dataCollectionTimer}
            /\ dataCollectionTimer' = 0
            /\ UNCHANGED windows
    /\ UNCHANGED <<totals, scratch, session, isTracking, listeners, inits, stops,
                   detecting, auxEvents, queued, observed, dropped, flushSent,
                   staleRuns, now, extra>>

\* the success branch with the counters restarted from the trimmed windows
FlushSettle_resetTotals(f, o) ==
    /\ f \in inflight
    /\ inflight' = inflight \ {f}
    /\ handled' = Append(handled, IF o = "ok" THEN "ok" ELSE "failed")
    /\ IF o = "ok"
       THEN /\ TrimWindows
            /\ mouseMovementTotal' = Len(LastN(mouseMovements, RetainCount))
            /\ clickPatternTotal' = Len(LastN(clickPatterns, RetainCount))
            /\ keystrokePatternTotal' = Len(LastN(keystrokePatterns, RetainCount))
            /\ scrollPatternTotal' = Len(LastN(scrollPatterns, RetainCount))
       ELSE UNCHANGED <<windows, totals>>
    /\ UNCHANGED <<scratch, session, tracking, detecting, auxEvents,
                   queued, observed, dropped, flushSent, staleRuns, now, extra>>

\* the success branch trimming what the request carried instead of what the
\* windows hold when the response arrives
FlushSettle_trimPayload(f, o) ==
    /\ f \in inflight
    /\ inflight' = inflight \ {f}
    /\ handled' = Append(handled, IF o = "ok" THEN "ok" ELSE "failed")
    /\ IF o = "ok"
       THEN /\ mouseMovements' = LastN(f.data.mouseMovements, RetainCount)
            /\ clickPatterns' = LastN(f.data.clickPatterns, RetainCount)
            /\ keystrokePatterns' = LastN(f.data.keystrokePatterns, RetainCount)
            /\ scrollPatterns' = LastN(f.data.scrollPatterns, RetainCount)
       ELSE UNCHANGED windows
    /\ UNCHANGED <<totals, scratch, session, tracking, detecting, auxEvents,
                   queued, observed, dropped, flushSent, staleRuns, now, extra>>

\* the promise chain of the collection fetch f settles with outcome o
FlushSettle(f, o) ==
    /\ f \in inflight
    /\ inflight' = inflight \ {f}
    /\ handled' = Append(handled, IF o = "ok" THEN "ok" ELSE "failed")
    /\ IF o = "ok" THEN TrimWindows ELSE UNCHANGED windows
    /\ UNCHANGED <<totals, scratch, session, tracking, detecting, auxEvents,
                   queued, observed, dropped, flushSent, staleRuns, now, extra>>

\* ------------------------------------------------------------------ getCurrentMetrics
\* arr.reduce((a, b) => a + b, 0) over a sequence of integers
RECURSIVE Reduce(_)
Reduce(q) == IF q = <<>> THEN 0 ELSE q[1] + Reduce(Tail(q))

\* the same over a sequence of finite Numbers
RECURSIVE ReduceNumbers(_)
ReduceNumbers(q) == IF q = <<>> THEN Zero ELSE Plus(q[1], ReduceNumbers(Tail(q)))

\* the loop "for (i = 1; i < w.length; i++) push(w[i].timestamp - w[i-1].timestamp)"
Intervals(w) == [i \in 1..(Len(w) - 1) |-> w[i + 1].timestamp - w[i].timestamp]

IsKeyDown(k) == k.type = "keydown"
HasVelocity(m) == m.velocity # {}

\* the three averages of the object getCurrentMetrics() returns
avgMouseVelocity ==
    LET with == SelectSeq(mouseMovements, HasVelocity)
        mouseVelocities == [i \in 1..Len(with) |-> CHOOSE v \in with[i].velocity : TRUE]
    IN  IF Len(mouseVelocities) > 0
        THEN Over(ReduceNumbers(mouseVelocities), Len(mouseVelocities)) ELSE Zero

avgClickInterval ==
    LET clickIntervals == Intervals(clickPatterns)
    IN  IF Len(clickIntervals) > 0
        THEN Quotient(Reduce(clickIntervals), Len(clickIntervals)) ELSE Zero

avgKeystrokeInterval ==
    LET keydownEvents == SelectSeq(keystrokePatterns, IsKeyDown)
        keystrokeIntervals == Intervals(keydownEvents)
    IN  IF Len(keystrokeIntervals) > 0
        THEN Quotient(Reduce(keystrokeIntervals), Len(keystrokeIntervals)) ELSE Zero

\* getCurrentMetrics() as it was before the total counters: the counts are the
\* lengths of the windows
getCurrentMetrics_windowLengths(B) ==
    /\ Len(metrics) < B.metrics
    /\ metrics' = Append(metrics,
           [sessionId |-> sessionId,
            mouseEventCount |-> Len(mouseMovements),
            clickEventCount |-> Len(clickPatterns),
            keystrokeEventCount |-> Len(keystrokePatterns),
            scrollEventCount |-> Len(scrollPatterns),
            avgMouseVelocity |-> avgMouseVelocity,
            avgClickInterval |-> avgClickInterval,
            avgKeystrokeInterval |-> avgKeystrokeInterval])
    /\ UNCHANGED <<windows, totals, scratch, session, tracking, flushing, detecting,
                   auxEvents, queued, observed, dropped, staleRuns, now,
                   synthesized, guarded, generated, collects, reloads, dashboard>>

\* getCurrentMetrics(): the object it returns, but for sessionDuration
getCurrentMetrics(B) ==
    /\ Len(metrics) < B.metrics
    /\ metrics' = Append(metrics,
           [sessionId |-> sessionId,
            mouseEventCount |-> mouseMovementTotal,
            clickEventCount |-> clickPatternTotal,
            keystrokeEventCount |-> keystrokePatternTotal,
            scrollEventCount |-> scrollPatternTotal,
            avgMouseVelocity |-> avgMouseVelocity,
            avgClickInterval |-> avgClickInterval,
            avgKeystrokeInterval |-> avgKeystrokeInterval])
    /\ UNCHANGED <<windows, totals, scratch, session, tracking, flushing, detecting,
                   auxEvents, queued, observed, dropped, staleRuns, now,
                   synthesized, guarded, generated, collects, reloads, dashboard>>

\* ------------------------------------------------------------------ detectBot
\* detectBot() without the return that ends its missing-session branch: the
\* callback gets the error and the request is built and sent all the same
detectBot_noReturn(B, isFunction) ==
    /\ Len(detects) < B.detect
    /\ detects' = Append(detects,
           [st |-> "pending", fn |-> isFunction, sent |-> TRUE,
            got |-> IF sessionId = Null /\ isFunction THEN <<"error">> ELSE <<>>,
            sessionId |-> sessionId, deviceFingerprint |-> deviceFingerprint,
            data |-> Snapshot, tracking |-> isTracking])
    /\ detectSent' = detectSent + 1
    /\ UNCHANGED <<windows, totals, scratch, session, tracking, flushing,
                   auxEvents, queued, observed, dropped, staleRuns, now, extra>>

\* detectBot() with the guard of sendBehavioralData(): without a session
\* identifier or while tracking is stopped it sends nothing
detectBot_trackingGuard(B, isFunction) ==
    /\ Len(detects) < B.detect
    /\ IF sessionId = Null \/ ~isTracking
       THEN /\ detects' = Append(detects,
                [st |-> "returned", fn |-> isFunction, sent |-> FALSE,
                 got |-> IF isFunction THEN <<"error">> ELSE <<>>,
                 sessionId |-> sessionId, deviceFingerprint |-> deviceFingerprint,
                 data |-> Snapshot, tracking |-> isTracking])
            /\ UNCHANGED detectSent
       ELSE /\ detects' = Append(detects,
                [st |-> "pending", fn |-> isFunction, sent |-> TRUE, got |-> <<>>,
                 sessionId |-> sessionId, deviceFingerprint |-> deviceFingerprint,
                 data |-> Snapshot, tracking |-> isTracking])
            /\ detectSent' = detectSent + 1
    /\ UNCHANGED <<windows, totals, scratch, session, tracking, flushing,
                   auxEvents, queued, observed, dropped, staleRuns, now, extra>>

\* detectBot(callback): isFunction is typeof callback === 'function'.  A request
\* record keeps the arguments the callback has been invoked with, in order, and
\* the tracking flag at the call.
detectBot(B, isFunction) ==
    /\ Len(detects) < B.detect
    /\ IF sessionId = Null
       THEN /\ detects' = Append(detects,
                [st |-> "returned", fn |-> isFunction, sent |-> FALSE,
                 got |-> IF isFunction THEN <<"error">> ELSE <<>>,
                 sessionId |-> sessionId, deviceFingerprint |-> deviceFingerprint,
                 data |-> Snapshot, tracking |-> isTracking])
            /\ UNCHANGED detectSent
       ELSE /\ detects' = Append(detects,
                [st |-> "pending", fn |-> isFunction, sent |-> TRUE, got |-> <<>>,
                 sessionId |-> sessionId, deviceFingerprint |-> deviceFingerprint,
                 data |-> Snapshot, tracking |-> isTracking])
            /\ detectSent' = detectSent + 1
    /\ UNCHANGED <<windows, totals, scratch, session, tracking, flushing,
                   auxEvents, queued, observed, dropped, staleRuns, now, extra>>

\* the callback invocations of the then/catch chain: with the decoded body on
\* success, and with { error } from the catch, which also receives what the
\* success handler raises (throws: the callback raises on the body)
ChainCalls(o, isFunction, throws) ==
    IF ~isFunction THEN <<>>
    ELSE IF o = "ok" THEN (IF throws THEN <<"data", "error">> ELSE <<"data">>)
    ELSE <<"error">>

\* the promise chain of detectBot request i settles with outcome o
DetectSettle(i, o, throws) ==
    /\ i \in 1..Len(detects)
    /\ detects[i].st = "pending"
    /\ detects' = [detects EXCEPT ![i].st = "settled",
                                  ![i].got = ChainCalls(o, detects[i].fn, throws)]
    /\ UNCHANGED <<windows, totals, scratch, session, tracking, flushing,
                   auxEvents, queued, observed, dropped, detectSent, staleRuns, now,
                   extra>>

\* ------------------------------------------------------------------ animateCounter
\* Math.ceil(p / q) for a positive q; -0 is 0, as it is for === 0
Ceil(p, q) == 0 - ((0 - p) \div q)

\* parseInt(element.textContent): {} is NaN
ParseInt(text) == text

\* parseInt(element.textContent) || 0
ParseIntOrZero(text) == IF ParseInt(text) = {} THEN 0 ELSE CHOOSE n \in ParseInt(text) : TRUE

\* animateCounter(element, targetValue)
animateCounter(targetValue) ==
    /\ animated < MaxAnimations
    /\ animated' = animated + 1
    /\ lastTarget' = {targetValue}
    /\ LET currentValue == ParseIntOrZero(textContent)
           increment == Ceil(targetValue - currentValue, 20)
       IN  IF increment = 0
           THEN UNCHANGED counterTimers
           ELSE counterTimers' = counterTimers \cup
                    {[id |-> animated + 1, increment |-> increment,
                      targetValue |-> targetValue]}
    /\ UNCHANGED <<windows, totals, scratch, session, tracking, flushing, detecting,
                   auxEvents, queued, observed, dropped, staleRuns, now,
                   synthesized, guarded, generated, collects, reloads, metrics,
                   markup, textContent>>

\* the callback of the interval t of animateCounter(); NaN + increment is NaN,
\* both comparisons with NaN are false, and the text written is "NaN"
CounterTick(t) ==
    /\ t \in counterTimers
    /\ LET newValue == {n + t.increment : n \in ParseInt(textContent)}
           reached == \E v \in newValue :
                          \/ t.increment > 0 /\ v >= t.targetValue
                          \/ t.increment < 0 /\ v <= t.targetValue
       IN  IF reached
           THEN /\ textContent' = {t.targetValue}
                /\ counterTimers' = counterTimers \ {t}
           ELSE /\ textContent' = newValue
                /\ UNCHANGED counterTimers
    /\ UNCHANGED <<windows, totals, scratch, session, tracking, flushing, detecting,
                   auxEvents, queued, observed, dropped, staleRuns, now,
                   synthesized, guarded, generated, collects, reloads, metrics,
                   markup, animated, lastTarget>>

\* ------------------------------------------------------------------ specifications
ProvidedIds == {Null, "external"}

\* every operation of the tracker, within the budget B
Step(B) ==
    \/ \E id \in B.ids : init(B, id)
    \/ \E pending \in BOOLEAN : stop(pending)
    \/ WindowCapture(B)
    \/ AuxCapture(B)
    \/ \E t \in EventTypes : DropEvent(B, t)
    \/ TimerCallback(B)
    \/ StaleCallback(B)
    \/ \E f \in inflight, o \in Outcomes : FlushSettle(f, o)
    \/ \E isFunction \in BOOLEAN : detectBot(B, isFunction)
    \/ \E i \in 1..Len(detects), o \in Outcomes, throws \in BOOLEAN :
           DetectSettle(i, o, throws)

\* the whole tracker, every operation interleaved, on short runs
Small == [chain |-> 1, side |-> 0, inits |-> MaxInits, flush |-> 1,
          dropped |-> MaxDropped, detect |-> 1, ids |-> ProvidedIds,
          targets |-> Targets,
    guarded |-> 0, reloads |-> 0, metrics |-> 0, varied |-> 0,
    points |-> {Origin}, dts |-> {DefaultDt}, envs |-> {"online"}, keys |-> {"A"}]

Next == Step(Small)

Spec == Init /\ [][Next]_vars

\* Capture alone, far enough to fill every window past its capacity: runs of
\* one event type.
Deep == [chain |-> maxMouseEvents + MaxDeepOver, side |-> 0, inits |-> 1,
         flush |-> 0, dropped |-> 0, detect |-> 0, ids |-> {Null},
         targets |-> {"a"},
    guarded |-> 0, reloads |-> 0, metrics |-> 0, varied |-> 0,
    points |-> {Origin}, dts |-> {DefaultDt}, envs |-> {"online"}, keys |-> {"A"}]

NextCapture ==
    \/ \E id \in Deep.ids : init(Deep, id)
    \/ WindowCapture(Deep)

SpecCapture == Init /\ [][NextCapture]_vars

\* The periodic flush and its responses over windows longer than a trim
\* keeps: runs of one event type, any number of fetches in flight.
Flush == [chain |-> RetainCount + MaxOver, side |-> 0, inits |-> 1,
          flush |-> MaxFlush, dropped |-> 0, detect |-> 0, ids |-> {Null},
          targets |-> {"a"},
    guarded |-> 0, reloads |-> 0, metrics |-> 0, varied |-> 0,
    points |-> {Origin}, dts |-> {DefaultDt}, envs |-> {"online"}, keys |-> {"A"}]

NextFlush ==
    \/ \E id \in Flush.ids : init(Flush, id)
    \/ WindowCapture(Flush)
    \/ TimerCallback(Flush)
    \/ \E f \in inflight, o \in Outcomes : FlushSettle(f, o)

SpecFlush == Init /\ [][NextFlush]_vars

\* init()/stop() cycles, init() while tracking, with capture, the timer and
\* one flush around them.
Lifecycle == [chain |-> MaxChain, side |-> 0, inits |-> MaxInits,
              flush |-> 1, dropped |-> MaxDropped, detect |-> 0,
              ids |-> {Null}, targets |-> {"a"},
    guarded |-> MaxGuarded, reloads |-> 0, metrics |-> 0, varied |-> 0,
    points |-> {Origin}, dts |-> {DefaultDt}, envs |-> {"online"}, keys |-> {"A"}]

NextLifecycle ==
    \/ \E id \in Lifecycle.ids : init(Lifecycle, id)
    \/ \E pending \in BOOLEAN : stop(pending)
    \/ WindowCapture(Lifecycle)
    \/ AuxCapture(Lifecycle)
    \/ \E t \in EventTypes : DropEvent(Lifecycle, t)
    \/ TimerCallback(Lifecycle)
    \/ StaleCallback(Lifecycle)
    \/ \E f \in inflight, o \in Outcomes : FlushSettle(f, o)

SpecLifecycle == Init /\ [][NextLifecycle]_vars

\* detectBot() before and after init(), over windows capture has filled.
Detect == [chain |-> MaxChain, side |-> 0, inits |-> 1, flush |-> 0,
           dropped |-> 0, detect |-> MaxDetect, ids |-> ProvidedIds,
           targets |-> {"a"},
    guarded |-> 0, reloads |-> 0, metrics |-> 0, varied |-> 0,
    points |-> {Origin}, dts |-> {DefaultDt}, envs |-> {"online"}, keys |-> {"A"}]

NextDetect ==
    \/ \E id \in Detect.ids : init(Detect, id)
    \/ WindowCapture(Detect)
    \/ \E isFunction \in BOOLEAN : detectBot(Detect, isFunction)
    \/ \E i \in 1..Len(detects), o \in Outcomes, throws \in BOOLEAN :
           DetectSettle(i, o, throws)

SpecDetect == Init /\ [][NextDetect]_vars

\* The k-th record of a run of mousemove events that leaves the pointer at
\* the origin and reads the clock every DefaultDt milliseconds.
PlainMove(k) ==
    [n |-> k, type |-> "mousemove", ref |-> k - 1, x |-> Origin[1], y |-> Origin[2],
     timestamp |-> LoadTime + k * DefaultDt,
     velocity |-> IF k = 1 THEN {} ELSE {Zero},
     acceleration |-> IF k = 1 THEN {} ELSE {Zero}]

\* The tracker after init(null) and RetainCount such mousemove events, the
\* state SpecFlush is in after these RetainCount + 1 steps: the longest mouse
\* window a success response leaves as it is.
Busy ==
    /\ storage \in {"sc_stored", NewIds[1]}
    /\ sessionId = storage
    /\ synthesized = (IF storage = NewIds[1] THEN 1 ELSE 0)
    /\ generated = {storage}
    /\ deviceFingerprint = [onlineStatus |-> "online"]
    /\ collects = 1
    /\ mouseMovements = [k \in 1..RetainCount |-> PlainMove(k)]
    /\ clickPatterns = <<>>
    /\ keystrokePatterns = <<>>
    /\ scrollPatterns = <<>>
    /\ auxEvents = [a \in {"windowEvents", "visibilityEvents", "touchEvents"} |-> 0]
    /\ isTracking = TRUE
    /\ dataCollectionTimer = 1
    /\ lastMouseEvent = PlainMove(RetainCount)
    /\ keystrokeStartTime = 0
    /\ mouseDownTime = [g \in Targets |-> 0]
    /\ mouseMovementTotal = RetainCount
    /\ clickPatternTotal = 0
    /\ keystrokePatternTotal = 0
    /\ scrollPatternTotal = 0
    /\ listeners = Subscribed
    /\ activeTimers = {1}
    /\ queued = FALSE
    /\ inflight = {}
    /\ detects = <<>>
    /\ now = LoadTime + RetainCount * DefaultDt
    /\ recorded = [t \in EventTypes |-> IF t = "mousemove" THEN RetainCount ELSE 0]
    /\ history = [c \in Categories |->
                     IF c = "mouse" THEN [k \in 1..RetainCount |-> PlainMove(k)]
                     ELSE <<>>]
    /\ staleRuns = 0
    /\ inits = 1
    /\ stops = 0
    /\ flushSent = 0
    /\ handled = <<>>
    /\ detectSent = 0
    /\ dropped = 0
    /\ guarded = 0
    /\ reloads = 0
    /\ metrics = <<>>
    /\ Card({0})

\* Every operation around the counters, from Busy on: capture past what a
\* trim keeps, a flush and its response, detectBot(), stop() and init() again,
\* with getCurrentMetrics() read in between.
Totals == [chain |-> RetainCount + MaxOver, side |-> 0, inits |-> MaxInits,
          flush |-> 1, dropped |-> 0, detect |-> 1, ids |-> {Null},
          targets |-> {"a"}, guarded |-> 0, reloads |-> 0, metrics |-> MaxMetrics,
          varied |-> 0, points |-> {Origin}, dts |-> {DefaultDt},
          envs |-> {"online"}, keys |-> {"A"}]

NextTotals ==
    \/ \E id \in Totals.ids : init(Totals, id)
    \/ stop(FALSE)
    \/ handleMouseMove(Totals)
    \/ TimerCallback(Totals)
    \/ \E f \in inflight, o \in Outcomes : FlushSettle(f, o)
    \/ detectBot(Totals, TRUE)
    \/ \E i \in 1..Len(detects), o \in Outcomes : DetectSettle(i, o, FALSE)
    \/ getCurrentMetrics(Totals)

SpecTotals == Busy /\ [][NextTotals]_vars

\* Both payloads over a click window that mousedown events have grown past
\* its capacity.
Payload == [chain |-> maxClickEvents + MaxDeepOver, side |-> 0, inits |-> 1,
           flush |-> 1, dropped |-> 0, detect |-> 1, ids |-> {Null},
           targets |-> {"a"}, guarded |-> 0, reloads |-> 0, metrics |-> 0,
           varied |-> 0, points |-> {Origin}, dts |-> {DefaultDt},
           envs |-> {"online"}, keys |-> {"A"}]

NextPayload ==
    \/ \E id \in Payload.ids : init(Payload, id)
    \/ \E target \in Payload.targets : handleMouseDown(Payload, target)
    \/ TimerCallback(Payload)
    \/ detectBot(Payload, TRUE)

SpecPayload == Init /\ [][NextPayload]_vars

\* The schedule while tracking stays active: the host keeps running the
\* callback of an armed interval, whatever became of the earlier fetches.
Schedule == [chain |-> MaxChain, side |-> 0, inits |-> 1, flush |-> MaxFlush,
            dropped |-> 0, detect |-> 0, ids |-> {Null}, targets |-> {"a"},
            guarded |-> 0, reloads |-> 0, metrics |-> 0, varied |-> 0,
            points |-> {Origin}, dts |-> {DefaultDt}, envs |-> {"online"}, keys |-> {"A"}]

NextSchedule ==
    \/ \E id \in Schedule.ids : init(Schedule, id)
    \/ WindowCapture(Schedule)
    \/ TimerCallback(Schedule)
    \/ \E f \in inflight, o \in Outcomes : FlushSettle(f, o)

SpecSchedule ==
    Init /\ [][NextSchedule]_vars /\ WF_vars(TimerCallback(Schedule))

\* where the pointer is seen in the runs that move it: at the origin or at a
\* point 50 units away from it
Points == {Origin, <<30, 40>>}
\* the time between two readings of the clock in the runs that vary it
Paces == {0, DefaultDt}

\* The pointer trail around a trim, from Busy on: mousemove events that move
\* or stay, at once or after DefaultDt, before and after a flush is answered.
Trail == [chain |-> RetainCount + MaxOver + 1, side |-> 0, inits |-> 1,
          flush |-> 1, dropped |-> 0, detect |-> 0, ids |-> {Null},
          targets |-> {"a"}, guarded |-> 0, reloads |-> 0, metrics |-> 0,
          varied |-> MaxVaried, points |-> Points, dts |-> Paces,
          envs |-> {"online"}, keys |-> {"A"}]

NextTrail ==
    \/ handleMouseMove(Trail)
    \/ TimerCallback(Trail)
    \/ \E f \in inflight, o \in Outcomes : FlushSettle(f, o)

SpecTrail == Busy /\ [][NextTrail]_vars

\* the time between two readings of the clock in the runs of presses
PressPaces == {0, 250}

\* Button presses and releases on two elements, in any order.
Press == [chain |-> MaxChain, side |-> MaxChain, inits |-> 1, flush |-> 0,
          dropped |-> 0, detect |-> 0, ids |-> {Null}, targets |-> Targets,
          guarded |-> 0, reloads |-> 0, metrics |-> 0, varied |-> 0,
          points |-> {Origin}, dts |-> PressPaces, envs |-> {"online"}, keys |-> {"A"}]

NextPress ==
    \/ \E id \in Press.ids : init(Press, id)
    \/ \E target \in Press.targets : handleMouseDown(Press, target)
    \/ \E target \in Press.targets : handleMouseUp(Press, target)

SpecPress == Init /\ [][NextPress]_vars

\* The first mousemove events after init(): the pointer moves or stays, at
\* once or after DefaultDt.
Pointer == [chain |-> MaxChain + 1, side |-> 0, inits |-> 1, flush |-> 0,
            dropped |-> 0, detect |-> 0, ids |-> {Null}, targets |-> {"a"},
            guarded |-> 0, reloads |-> 0, metrics |-> 0, varied |-> MaxChain + 1,
            points |-> Points, dts |-> Paces, envs |-> {"online"}, keys |-> {"A"}]

NextPointer ==
    \/ \E id \in Pointer.ids : init(Pointer, id)
    \/ handleMouseMove(Pointer)

SpecPointer == Init /\ [][NextPointer]_vars

\* what navigator.onLine is when a fingerprint is collected
Envs == {"online", "offline"}

\* The session across init()/stop() cycles and page loads, with the payloads
\* sent meanwhile.
Session == [chain |-> 0, side |-> 0, inits |-> MaxInits, flush |-> MaxFlush,
            dropped |-> 0, detect |-> MaxDetect, ids |-> ProvidedIds,
            targets |-> {"a"}, guarded |-> 0, reloads |-> MaxReloads,
            metrics |-> 0, varied |-> 0, points |-> {Origin},
            dts |-> {DefaultDt}, envs |-> Envs, keys |-> {"A"}]

NextSession ==
    \/ \E id \in Session.ids : init(Session, id)
    \/ stop(FALSE)
    \/ Reload(Session)
    \/ TimerCallback(Session)
    \/ detectBot(Session, TRUE)

SpecSession == Init /\ [][NextSession]_vars

\* stop() around a flush in flight, from Busy on, over a mouse window longer
\* than a trim keeps.
Teardown == [chain |-> RetainCount + MaxOver, side |-> 0, inits |-> MaxInits,
             flush |-> 1, dropped |-> 0, detect |-> 0, ids |-> {Null},
             targets |-> {"a"}, guarded |-> 0, reloads |-> 0, metrics |-> 0,
             varied |-> 0, points |-> {Origin}, dts |-> {DefaultDt},
             envs |-> {"online"}, keys |-> {"A"}]

NextTeardown ==
    \/ \E id \in Teardown.ids : init(Teardown, id)
    \/ \E pending \in BOOLEAN : stop(pending)
    \/ handleMouseMove(Teardown)
    \/ TimerCallback(Teardown)
    \/ StaleCallback(Teardown)
    \/ \E f \in inflight, o \in Outcomes : FlushSettle(f, o)

SpecTeardown == Busy /\ [][NextTeardown]_vars

\* One flush and its response, with mousemove events captured before the
\* submission, between it and the response, and after.
Loss == [chain |-> RetainCount + MaxOver, side |-> 0, inits |-> 1, flush |-> 1,
         dropped |-> 0, detect |-> 0, ids |-> {Null}, targets |-> {"a"},
         guarded |-> 0, reloads |-> 0, metrics |-> 0, varied |-> 0,
         points |-> {Origin}, dts |-> {DefaultDt}, envs |-> {"online"}, keys |-> {"A"}]

NextLoss ==
    \/ \E id \in Loss.ids : init(Loss, id)
    \/ handleMouseMove(Loss)
    \/ TimerCallback(Loss)
    \/ \E f \in inflight, o \in Outcomes : FlushSettle(f, o)

SpecLoss == Init /\ [][NextLoss]_vars

\* the keys pressed in the runs of key events
Keys == {"A", "B"}

\* Key presses and releases of two keys, in any order, at once or after
\* DefaultDt.
Typing == [chain |-> MaxChain, side |-> MaxChain - 1, inits |-> 1, flush |-> 0,
           dropped |-> 0, detect |-> 0, ids |-> {Null}, targets |-> {"a"},
           guarded |-> 0, reloads |-> 0, metrics |-> 0, varied |-> 0,
           points |-> {Origin}, dts |-> Paces, envs |-> {"online"}, keys |-> Keys]

NextTyping ==
    \/ \E id \in Typing.ids : init(Typing, id)
    \/ handleKeyDown(Typing)
    \/ handleKeyUp(Typing)

SpecTyping == Init /\ [][NextTyping]_vars

\* init() with and without an identifier of the caller's, before and after
\* the automatic init(null) of the page load, and the payloads sent after.
Provided == [chain |-> 0, side |-> 0, inits |-> MaxInits, flush |-> 1,
             dropped |-> 0, detect |-> MaxDetect, ids |-> ProvidedIds,
             targets |-> {"a"}, guarded |-> MaxGuarded, reloads |-> 0,
             metrics |-> 0, varied |-> 0, points |-> {Origin},
             dts |-> {DefaultDt}, envs |-> {"online"}, keys |-> {"A"}]

NextProvided ==
    \/ \E id \in Provided.ids : init(Provided, id)
    \/ stop(FALSE)
    \/ TimerCallback(Provided)
    \/ detectBot(Provided, TRUE)

SpecProvided == Init /\ [][NextProvided]_vars

\* getCurrentMetrics() over click and keystroke windows that clicks, button
\* presses and key presses have filled, at once or after DefaultDt.
Averages == [chain |-> MaxChain, side |-> 1, inits |-> 1, flush |-> 0,
             dropped |-> 0, detect |-> 0, ids |-> {Null}, targets |-> {"a"},
             guarded |-> 0, reloads |-> 0, metrics |-> 1, varied |-> 0,
             points |-> {Origin}, dts |-> Paces, envs |-> {"online"},
             keys |-> {"A"}]

NextAverages ==
    \/ \E id \in Averages.ids : init(Averages, id)
    \/ handleClick(Averages)
    \/ \E target \in Averages.targets : handleMouseDown(Averages, target)
    \/ \E target \in Averages.targets : handleMouseUp(Averages, target)
    \/ handleKeyDown(Averages)
    \/ handleKeyUp(Averages)
    \/ getCurrentMetrics(Averages)

SpecAverages == Init /\ [][NextAverages]_vars

\* From Busy on: capture that outruns two trims, key releases beside it, and
\* two flushes whose responses arrive in any order.
Trims == [chain |-> RetainCount + MaxDeepOver, side |-> 1, inits |-> 1,
          flush |-> MaxFlush, dropped |-> 0, detect |-> 0, ids |-> {Null},
          targets |-> {"a"}, guarded |-> 0, reloads |-> 0, metrics |-> 0,
          varied |-> 0, points |-> {Origin}, dts |-> {DefaultDt},
          envs |-> {"online"}, keys |-> {"A"}]

NextTrims ==
    \/ handleMouseMove(Trims)
    \/ handleKeyUp(Trims)
    \/ TimerCallback(Trims)
    \/ \E f \in inflight, o \in Outcomes : FlushSettle(f, o)

SpecTrims == Busy /\ [][NextTrims]_vars

\* detectBot() before init(), while tracking and after stop(), before and
\* after a flush, over the windows capture has filled.
Verdict == [chain |-> MaxChain, side |-> 0, inits |-> MaxInits, flush |-> 1,
            dropped |-> 0, detect |-> MaxDetect, ids |-> {Null},
            targets |-> {"a"}, guarded |-> 0, reloads |-> 0, metrics |-> 0,
            varied |-> 0, points |-> {Origin}, dts |-> {DefaultDt},
            envs |-> {"online"}, keys |-> {"A"}]

NextVerdict ==
    \/ \E id \in Verdict.ids : init(Verdict, id)
    \/ stop(FALSE)
    \/ handleMouseMove(Verdict)
    \/ TimerCallback(Verdict)
    \/ \E f \in inflight, o \in Outcomes : FlushSettle(f, o)
    \/ \E isFunction \in BOOLEAN : detectBot(Verdict, isFunction)
    \/ \E i \in 1..Len(detects), o \in Outcomes, throws \in BOOLEAN :
           DetectSettle(i, o, throws)

SpecVerdict == Init /\ [][NextVerdict]_vars

\* what the card shows before the animation: no number, or one below, at or
\* above the values it is sent to
Displays == {{}, {0 - 25}, {0}, {7}, {40}}
\* data.total_detections || 0 and the like
CounterTargets == {0 - 25, 0, 7, 40, 100}

\* One animation of the card from what its markup shows: the host keeps
\* running the callback of an armed interval every 50 ms.
Shown == Loaded /\ \E m \in Displays : Card(m)

NextCounter ==
    \/ \E targetValue \in CounterTargets : animateCounter(targetValue)
    \/ \E t \in counterTimers : CounterTick(t)

SpecCounter ==
    Shown /\ [][NextCounter]_vars /\ WF_vars(\E t \in counterTimers : CounterTick(t))

\* ------------------------------------------------------------------ views
Window(c) ==
    CASE c = "mouse" -> mouseMovements
      [] c = "click" -> clickPatterns
      [] c = "keystroke" -> keystrokePatterns
      [] c = "scroll" -> scrollPatterns

Total(c) ==
    CASE c = "mouse" -> mouseMovementTotal
      [] c = "click" -> clickPatternTotal
      [] c = "keystroke" -> keystrokePatternTotal
      [] c = "scroll" -> scrollPatternTotal

Capacity(c) ==
    CASE c = "mouse" -> maxMouseEvents
      [] c = "click" -> maxClickEvents
      [] c = "keystroke" -> maxKeystrokeEvents
      [] c = "scroll" -> maxScrollEvents

\* w holds the last Len(w) entries of h, in the order of h
IsSuffixOf(w, h) ==
    /\ Len(w) <= Len(h)
    /\ \A i \in 1..Len(w) : w[i] = h[Len(h) - Len(w) + i]

\* after is the last min(k, Len(before)) entries of before, in order
KeepsLast(before, after, k) ==
    /\ Len(after) = Min(k, Len(before))
    /\ IsSuffixOf(after, before)

SomeFailed == \E i \in DOMAIN handled : handled[i] = "failed"
SomeSucceeded == \E i \in DOMAIN handled : handled[i] = "ok"

\* ------------------------------------------------------------------ claims

\* C1: in every reachable state each category's lifetime counter is at least
\* the length of that category's rolling window.
C1_CounterCoversWindow == \A c \in Categories : Total(c) >= Len(Window(c))

\* C2: in every reachable state every rolling window is within its capacity
\* (100 mouse, 50 click, 100 keystroke, 50 scroll).
C2_WindowsBounded == \A c \in Categories : Len(Window(c)) <= Capacity(c)

\* C3: from an empty tracker and before any flush response, after N records
\* appended to a category its counter is N, its window holds min(N, capacity)
\* entries, and these are the last min(N, capacity) records in arrival order.
C3_RecordLaw ==
    handled = <<>> =>
        \A c \in Categories :
            /\ Total(c) = Len(history[c])
            /\ Len(Window(c)) = Min(Len(history[c]), Capacity(c))
            /\ IsSuffixOf(Window(c), history[c])

\* C4: handling a success response changes no lifetime counter and leaves each
\* window with its min(10, previous length) most recent entries.
C4_SuccessTrim ==
    [][(\E f \in inflight : FlushSettle(f, "ok")) =>
          /\ totals' = totals
          /\ \A c \in Categories : KeepsLast(Window(c), Window(c)', RetainCount)]_vars

\* a success response has been handled and it shortened a window
C4_Witness ==
    /\ SomeSucceeded
    /\ \E c \in Categories :
           Len(Window(c)) = RetainCount /\ Len(history[c]) > RetainCount

\* C5: handling a failed flush (non-2xx, transport error, undecodable body)
\* leaves the four windows and the four counters as they were; a success
\* handled after a failure trims every window to its last 10 entries.
C5_FailureKeepsData ==
    [][/\ (\E f \in inflight, o \in Outcomes \ {"ok"} : FlushSettle(f, o)) =>
              UNCHANGED <<windows, totals>>
       /\ (SomeFailed /\ \E f \in inflight : FlushSettle(f, "ok")) =>
              \A c \in Categories : KeepsLast(Window(c), Window(c)', RetainCount)]_vars

\* a failure was handled over a window longer than 10, which it left alone,
\* and the success handled after it trimmed that window
C5_Witness ==
    /\ \E i, j \in DOMAIN handled : i < j /\ handled[i] = "failed" /\ handled[j] = "ok"
    /\ \E c \in Categories :
           Len(Window(c)) = RetainCount /\ Len(history[c]) > RetainCount

\* C6: a function callback passed to detectBot is invoked exactly once per
\* request: never twice, and once by the time the request has been answered.
C6_CallbackExactlyOnce ==
    \A i \in DOMAIN detects :
        detects[i].fn =>
            /\ Len(detects[i].got) <= 1
            /\ detects[i].st # "pending" => Len(detects[i].got) = 1

\* C7: detectBot called while no session identifier exists issues no network
\* request and invokes the callback once, with an error descriptor; nothing
\* invokes it again later.
C7_NoSessionNoRequest ==
    [][/\ (sessionId = Null /\ Len(detects') > Len(detects)) =>
              /\ detectSent' = detectSent
              /\ ~detects'[Len(detects')].sent
              /\ detects'[Len(detects')].fn =>
                     detects'[Len(detects')].got = <<"error">>
       /\ \A i \in DOMAIN detects :
              ~detects[i].sent => detects'[i] = detects[i]]_vars

\* detectBot was called with a function before any init() and no request left
C7_Witness ==
    /\ detects # <<>>
    /\ detects[1].fn /\ ~detects[1].sent /\ detects[1].got = <<"error">>
    /\ detectSent = 0
    /\ sessionId # Null

\* C8: while tracking is stopped no handler is subscribed, so a host event of
\* any type records nothing and changes no counter and no window.
C8_InertAfterStop ==
    /\ [](~isTracking => listeners = {})
    /\ [][~isTracking =>
            /\ observed' = observed
            /\ dropped' # dropped =>
                   UNCHANGED <<windows, totals, auxEvents, scratch>>]_vars

\* after capture filled a window, stop() returned and a host event arrived
C8_Witness ==
    /\ stops > 0 /\ ~isTracking /\ dropped > 0
    /\ \E c \in Categories : Window(c) # <<>>

\* C9: while tracking is stopped no interval is armed and nothing is sent to
\* the collection endpoint, also not by a timer callback that still runs.
C9_NoFlushAfterStop ==
    /\ [](~isTracking => activeTimers = {} /\ dataCollectionTimer = 0)
    /\ [][~isTracking => flushSent' = flushSent /\ inflight' \subseteq inflight]_vars

\* a timer callback ran after stop() and before any further init()
C9_Witness ==
    /\ inits = 1 /\ stops = 1 /\ ~isTracking
    /\ staleRuns > 0 /\ sessionId # Null

\* C10, as claimed, for the mouse window: its contents are the most recent
\* min(mouseMovementTotal, 100) mouse events, in arrival order.
C10_WindowIsMinOfCounterAndCapacity ==
    /\ Len(mouseMovements) = Min(mouseMovementTotal, maxMouseEvents)
    /\ IsSuffixOf(mouseMovements, history.mouse)

\* C10, amended: each window holds the most recent records of its category, in
\* arrival order, as many as its current length; after a successful flush
\* that is fewer than min(lifetime counter, capacity).
C10_WindowIsRecentSuffix ==
    \A c \in Categories : IsSuffixOf(Window(c), history[c])

\* a successful flush left the mouse window shorter than min(counter, capacity)
C10_Witness ==
    /\ SomeSucceeded
    /\ Len(mouseMovements) = RetainCount
    /\ mouseMovementTotal > RetainCount

\* the four event counts of an object getCurrentMetrics() returned
Counts(m) ==
    <<m.mouseEventCount, m.clickEventCount, m.keystrokeEventCount, m.scrollEventCount>>

\* C11: no operation decreases a lifetime counter, and of two calls of
\* getCurrentMetrics() the later one returns no smaller event count.
C11_CountersNeverDecrease ==
    /\ [][\A c \in Categories : Total(c)' >= Total(c)]_vars
    /\ [](\A i, j \in DOMAIN metrics :
            i < j => \A k \in 1..4 : Counts(metrics[i])[k] <= Counts(metrics[j])[k])

\* getCurrentMetrics() was read before and after a success response trimmed
\* the mouse window, around a stop() and a second init() and a detectBot()
C11_Witness ==
    /\ Len(metrics) = 2 /\ SomeSucceeded /\ stops > 0 /\ inits = 2
    /\ detects # <<>>
    /\ Len(mouseMovements) = RetainCount
    /\ metrics[1].mouseEventCount > RetainCount
    /\ metrics[2].mouseEventCount >= metrics[1].mouseEventCount

\* the entries of category c in the payload data d
PayloadWindow(d, c) ==
    CASE c = "mouse" -> d.mouseMovements
      [] c = "click" -> d.clickPatterns
      [] c = "keystroke" -> d.keystrokePatterns
      [] c = "scroll" -> d.scrollPatterns

\* d holds, for every category, the last min(capacity, length) entries of the
\* window, in the window's order
IsRecentWindow(d) ==
    \A c \in Categories : KeepsLast(Window(c), PayloadWindow(d, c), Capacity(c))

\* C12: the payload a flush or a detectBot() builds holds, for each category,
\* at most capacity entries, these being the most recent entries of the window
\* at that moment in order, and building it leaves the windows as they were.
C12_PayloadIsRecentWindow ==
    [][/\ \A f \in inflight' \ inflight :
              /\ IsRecentWindow(f.data)
              /\ \A c \in Categories : Len(PayloadWindow(f.data, c)) <= Capacity(c)
              /\ UNCHANGED windows
       /\ (Len(detects') > Len(detects) /\ detects'[Len(detects')].sent) =>
              /\ IsRecentWindow(detects'[Len(detects')].data)
              /\ \A c \in Categories :
                     Len(PayloadWindow(detects'[Len(detects')].data, c)) <= Capacity(c)
              /\ UNCHANGED windows]_vars

\* a flush payload and a detectBot() payload were each built from a click
\* window longer than its capacity, and left its oldest entry out
C12_Witness ==
    /\ \E f \in inflight :
           /\ Len(f.data.clickPatterns) = maxClickEvents
           /\ f.data.clickPatterns[1].n > 1
    /\ detects # <<>> /\ detects[1].sent
    /\ Len(detects[1].data.clickPatterns) = maxClickEvents
    /\ detects[1].data.clickPatterns[1].n > 1

\* C13: a call of init() while tracking is active changes nothing: not the
\* subscriptions, not the timer, not the session identifier, the fingerprint,
\* the windows or the counters; no second timer is ever armed.
C13_InitWhileTrackingIsNoOp ==
    /\ [][guarded' > guarded =>
            UNCHANGED <<windows, totals, scratch, session, tracking, flushing,
                        auxEvents, collects, generated, synthesized>>]_vars
    /\ [](Cardinality(activeTimers) <= 1)

\* init() was called while tracking was active, over a window holding events
C13_Witness ==
    /\ guarded > 0 /\ isTracking /\ inits = 1
    /\ \E c \in Categories : Window(c) # <<>>

\* C14: while tracking stays active a failed flush leaves the interval armed,
\* every flush carries the windows as they are when it is submitted, and
\* after a failure the next flush is eventually submitted.
C14_FailureKeepsSchedule ==
    /\ []((isTracking /\ SomeFailed) =>
            (dataCollectionTimer # 0 /\ activeTimers = {dataCollectionTimer}))
    /\ [][flushSent' > flushSent =>
            \E f \in inflight' : f.id = flushSent' /\ f.data = Snapshot]_vars
    /\ \A k \in 1..(MaxFlush - 1) :
           (SomeFailed /\ flushSent = k) ~> (flushSent > k)

\* the first flush has failed, tracking is still active, and the second flush
\* is in flight with the events captured since
C14_Witness ==
    /\ handled = <<"failed">> /\ isTracking /\ flushSent = 2
    /\ \E f \in inflight : f.id = 2 /\ \E c \in Categories :
           Len(PayloadWindow(f.data, c)) = MaxChain

\* the mousemove record appended by this step and the one appended before it
Curr == history.mouse'[Len(history.mouse')]
Prev == history.mouse[Len(history.mouse)]
Elapsed == Curr.timestamp - Prev.timestamp
DistanceSquared ==
    (Curr.x - Prev.x) * (Curr.x - Prev.x) + (Curr.y - Prev.y) * (Curr.y - Prev.y)

\* v is the non-negative Number whose square is p / q
IsRootOf(v, p, q) ==
    /\ IsFinite(v) /\ v.num >= 0
    /\ v.num * v.num * q = p * v.den * v.den

Pushed == clickPatterns'[Len(clickPatterns')]

\* C16: a mousedown leaves its time on its target; a mouseup on a target
\* holding the time t1 of a mousedown is recorded with the duration t2 - t1,
\* and a mouseup on a target holding none is recorded with the duration 0.
C16_PressDuration ==
    [][\A g \in Targets :
          /\ handleMouseDown(Press, g) => mouseDownTime'[g] = Pushed.timestamp
          /\ handleMouseUp(Press, g) =>
                 Pushed.duration = {IF mouseDownTime[g] # 0
                                    THEN Pushed.timestamp - mouseDownTime[g]
                                    ELSE 0}]_vars

\* a is the Number (cv - pv) / k, for finite cv and pv and an integer k > 0
IsChangeOver(a, cv, pv, k) ==
    /\ IsFinite(a)
    /\ a.num * (cv.den * pv.den * k) = (cv.num * pv.den - pv.num * cv.den) * a.den

\* C17: a mousemove whose predecessor carries a velocity, be it 0, stores the
\* acceleration (velocity - previous velocity) / elapsed; one whose predecessor
\* carries no velocity stores the acceleration 0.
C17_AccelerationFromVelocities ==
    [][(Len(history.mouse') > Len(history.mouse) /\ Len(history.mouse) > 0) =>
          /\ (Prev.velocity # {} /\ Elapsed > 0) =>
                 \E a \in Curr.acceleration, cv \in Curr.velocity, pv \in Prev.velocity :
                     IsChangeOver(a, cv, pv, Elapsed)
          /\ Prev.velocity = {} => Curr.acceleration = {Zero}]_vars

\* C18: while storage holds an identifier it is never replaced and none is
\* made up; every call of generateSessionId() returns the one identifier
\* storage holds, across init()/stop() cycles and page loads, and at most one
\* identifier is ever made up and written.
C18_SessionIdIsStable ==
    /\ [][storage # Null => (storage' = storage /\ synthesized' = synthesized)]_vars
    /\ [](generated # {} => generated = {storage})
    /\ [](synthesized <= 1)

\* an identifier was made up on the first page load and returned again by
\* both init() calls of the second
C18_Witness ==
    /\ reloads = 1 /\ inits = 2 /\ stops > 0
    /\ synthesized = 1 /\ sessionId = NewIds[1] /\ generated = {NewIds[1]}

\* C19: a call of getCurrentMetrics() changes nothing of the tracker, and the
\* four event counts it returns are the four lifetime counters.
C19_MetricsReadOnly ==
    [][Len(metrics') > Len(metrics) =>
          /\ UNCHANGED <<windows, totals, scratch, session, tracking, flushing,
                         detecting, auxEvents, queued>>
          /\ Counts(metrics'[Len(metrics')]) = totals]_vars

\* getCurrentMetrics() returned a mouse count above the length the mouse
\* window has after its trim
C19_Witness ==
    /\ SomeSucceeded /\ Len(mouseMovements) = RetainCount
    /\ Len(metrics) = 1 /\ metrics[1].mouseEventCount = RetainCount + 1
    /\ mouseMovementTotal = RetainCount + 1

\* C20: within one page load collectDeviceFingerprint() runs at most once,
\* whatever init() and stop() calls are made, and all payloads in flight
\* carry the same fingerprint.
C20_FingerprintCollectedOnce ==
    /\ collects <= 1
    /\ \A f, g \in inflight : f.deviceFingerprint = g.deviceFingerprint
    /\ \A f \in inflight, i \in DOMAIN detects :
           detects[i].sent => detects[i].deviceFingerprint = f.deviceFingerprint

\* C21: once stop() has returned and until init() is called again, nothing
\* changes a window or a counter, also not the response to a flush that was
\* in flight when stop() was called.
C21_NoEffectAfterStop ==
    [][~isTracking => UNCHANGED <<windows, totals>>]_vars

\* the entries of the sequence w
Entries(w) == {w[i] : i \in DOMAIN w}

\* C22: every entry the trim of a success response removes from a window is
\* in the payload of a flush submitted before (in SpecLoss, where one flush
\* is submitted, the one being answered).
C22_TrimmedEntriesWereSent ==
    [][\A f \in inflight :
          FlushSettle(f, "ok") =>
              \A c \in Categories :
                  Entries(Window(c)) \ Entries(Window(c)') \subseteq
                      UNION {Entries(PayloadWindow(g.data, c)) : g \in inflight}]_vars

\* the keydown the keyup h[i] answers: the last keydown of its key before it
\* with no keyup of that key in between, 0 when there is none
MatchingKeyDown(h, i) ==
    LET downs == {j \in 1..(i - 1) :
                     /\ h[j].type = "keydown" /\ h[j].keyCode = h[i].keyCode
                     /\ \A k \in (j + 1)..(i - 1) :
                            h[k].keyCode = h[i].keyCode => h[k].type = "keydown"}
    IN  IF downs = {} THEN 0 ELSE CHOOSE j \in downs : \A k \in downs : k <= j

\* C23: every keyup record carries the time since the keydown of the same key
\* it answers, and the duration 0 when there is no such keydown.
C23_KeyDurationPerKey ==
    \A i \in DOMAIN history.keystroke :
        history.keystroke[i].type = "keyup" =>
            LET j == MatchingKeyDown(history.keystroke, i)
            IN  history.keystroke[i].duration =
                    {IF j = 0 THEN 0
                     ELSE history.keystroke[i].timestamp - history.keystroke[j].timestamp}

\* C24: when a call init(id) with an identifier of the caller's returns, the
\* session identifier is id, and every payload built carries the session
\* identifier of that moment.
C24_ProvidedIdIsUsed ==
    [][/\ \A id \in ProvidedIds \ {Null} : init(Provided, id) => sessionId' = id
       /\ \A f \in inflight' \ inflight : f.sessionId = sessionId
       /\ (Len(detects') > Len(detects) /\ detects'[Len(detects')].sent) =>
              detects'[Len(detects')].sessionId = sessionId]_vars

IsClick(e) == e.type = "click"

\* the mean of the differences between consecutive timestamps of q, 0 for
\* fewer than two entries: the differences add up to last minus first
MeanStep(q) ==
    IF Len(q) < 2 THEN Zero
    ELSE Quotient(q[Len(q)].timestamp - q[1].timestamp, Len(q) - 1)

\* C25: getCurrentMetrics() returns as avgClickInterval the mean time between
\* consecutive click events of the click window and as avgKeystrokeInterval
\* the mean time between consecutive keydown events of the keystroke window,
\* 0 for fewer than two of them.
C25_AveragesOverLikeEvents ==
    [][Len(metrics') > Len(metrics) =>
          /\ metrics'[Len(metrics')].avgClickInterval =
                 MeanStep(SelectSeq(clickPatterns, IsClick))
          /\ metrics'[Len(metrics')].avgKeystrokeInterval =
                 MeanStep(SelectSeq(keystrokePatterns, IsKeyDown))]_vars

\* w is h from its entry k + 1 on
IsTailFrom(w, h, k) == w = [i \in 1..(Len(h) - k) |-> h[k + i]]

\* C26: each window is a contiguous run of the events ever appended to its
\* category that ends with the latest one, no record twice; a step only
\* removes entries from the oldest end and only adds the events the step
\* appended, at the newest end.
C26_WindowIsContiguousSuffix ==
    /\ [](\A c \in Categories :
            /\ \E k \in 0..Len(history[c]) : IsTailFrom(Window(c), history[c], k)
            /\ \A i, j \in DOMAIN Window(c) :
                   i < j => Window(c)[i].n < Window(c)[j].n)
    /\ [][\A c \in Categories :
             \E k \in 0..Len(Window(c)) :
                 Window(c)' = [i \in 1..(Len(Window(c)) - k) |-> Window(c)[k + i]]
                                  \o SubSeq(history'[c], Len(history[c]) + 1,
                                            Len(history'[c]))]_vars

\* two success responses have trimmed a mouse window that capture had
\* refilled in between or before
C26_Witness ==
    /\ handled = <<"ok", "ok">>
    /\ Len(history.mouse) = RetainCount + MaxDeepOver
    /\ Len(mouseMovements) = RetainCount
    /\ Len(history.keystroke) = 1

\* C27: the callback of one detectBot request is never invoked with the
\* decoded success body and with an error descriptor as well.
C27_NeverBodyAndError ==
    \A i \in DOMAIN detects :
        ~(\E j, k \in DOMAIN detects[i].got :
              detects[i].got[j] = "data" /\ detects[i].got[k] = "error")

\* a step of detectBot: a call, or the settling of one of its requests
DetectStep == detects' # detects

\* C28: a call of detectBot and the settling of its request leave the four
\* windows, the four counters, the tracking flag and the periodic timer as
\* they are; a call made while a session identifier exists sends a request
\* that carries the current windows (cut to their capacities), whether or not
\* tracking is active, and a call made without one sends none.
C28_DetectBotIsIndependent ==
    [][DetectStep =>
          /\ UNCHANGED <<windows, totals, isTracking, dataCollectionTimer,
                         activeTimers, queued, inflight, flushSent>>
          /\ Len(detects') > Len(detects) =>
                 LET d == detects'[Len(detects')]
                 IN  /\ d.sent = (sessionId # Null)
                     /\ detectSent' = detectSent + (IF d.sent THEN 1 ELSE 0)
                     /\ d.sent =>
                            /\ KeepsLast(mouseMovements, d.data.mouseMovements,
                                         maxMouseEvents)
                            /\ KeepsLast(clickPatterns, d.data.clickPatterns,
                                         maxClickEvents)
                            /\ KeepsLast(keystrokePatterns, d.data.keystrokePatterns,
                                         maxKeystrokeEvents)
                            /\ KeepsLast(scrollPatterns, d.data.scrollPatterns,
                                         maxScrollEvents)]_vars

\* after stop(), and with a flush answered, detectBot sent the windows
C28_Witness ==
    /\ handled # <<>>
    /\ \E i \in DOMAIN detects :
           /\ detects[i].sent /\ ~detects[i].tracking
           /\ detects[i].data.mouseMovements # <<>>
           /\ detects[i].st = "settled"

\* C29: the periodic timer is armed exactly while isTracking holds, it is the
\* one dataCollectionTimer names, and no second one is armed beside it.
C29_TimerArmedIffTracking ==
    /\ isTracking <=> activeTimers # {}
    /\ Cardinality(activeTimers) <= 1
    /\ isTracking => activeTimers = {dataCollectionTimer}

\* init(), stop() and init() again: the second interval is the only one armed
C29_Witness ==
    /\ inits = 2 /\ stops = 1 /\ isTracking
    /\ activeTimers = {dataCollectionTimer}

\* C30: every velocity and every acceleration stored on a mouse record is a
\* finite number.
C30_StoredValuesAreFinite ==
    \A i \in DOMAIN history.mouse :
        /\ \A v \in history.mouse[i].velocity : IsFinite(v)
        /\ \A a \in history.mouse[i].acceleration : IsFinite(a)

\* C31: after animateCounter(element, target) on an element that shows an
\* integer, the element eventually shows exactly target and no animation
\* interval is left armed.
C31_CounterConverges ==
    \A target \in CounterTargets :
        (lastTarget = {target} /\ markup # {}) ~>
            (textContent = {target} /\ counterTimers = {})

====
